---------------------------- MODULE Spec2Model ----------------------------
(***************************************************************************)
(* Model of kratos/generator.py: the generator hierarchy, the per-class    *)
(* definition cache (Generator.create), deferred initialization of clones  *)
(* (initialize_clone) and the child bookkeeping of a generator.            *)
(*                                                                         *)
(* A generator object is a record; its identity is its index in gens.      *)
(* The backend generator (_kratos.Generator) that every Python generator   *)
(* wraps is folded into the same record: name, instance_name, debug,       *)
(* is_cloned, ports, vars, params, stmts and bchildren are backend fields. *)
(***************************************************************************)
EXTENDS Integers, Sequences, FiniteSets, TLC

VARIABLES
    global_debug,   \* __GLOBAL_DEBUG
    hseed,          \* the interpreter's string-hash seed, fixed per process
    cache,          \* cls._cache of every class: hash value -> generator
    gens,           \* every Generator object built so far
    context,        \* Generator.__context: the generators the backend registered
    first_of,       \* history: first create result per (class, mapping) since the last reset
    last            \* the call that produced this state, and how it ended

vars == <<global_debug, hseed, cache, gens, context, first_of, last>>

-----------------------------------------------------------------------------
(* Bounds *)

MaxGen == 3         \* generator objects built in one run
MaxSeed == 1        \* string-hash seeds 0..MaxSeed
MaxQueue == 2       \* deferred calls recorded on one clone
MaxStmts == 2       \* top-level statements of one generator
MaxClones == 1      \* clones whose deferred construction is followed

-----------------------------------------------------------------------------
(* Classes: Generator, a direct subclass A, and a subclass B of A. *)

Classes == {"Generator", "A", "B"}

Bases(c) == CASE c = "A" -> {"Generator"} [] c = "B" -> {"A"} [] OTHER -> {}

\* type.__subclasses__(): the direct subclasses only
Subclasses(c) == {d \in Classes : c \in Bases(d)}

NoGen == 0
EmptyMap == [x \in {} |-> NoGen]

GenIds == 1..Len(gens)

-----------------------------------------------------------------------------
(* hash() and the cache key of __cached_py_generator *)

RECURSIVE BitXor(_, _)
BitXor(a, b) ==
    IF a = 0 THEN b
    ELSE IF b = 0 THEN a
    ELSE (((a % 2) + (b % 2)) % 2) + (2 * BitXor(a \div 2, b \div 2))

ShiftBits == 16

RECURSIVE Pow2(_)
Pow2(n) == IF n = 0 THEN 1 ELSE 2 * Pow2(n - 1)

Shl(x, n) == x * Pow2(n)

\* hash() of a str: 0 for the empty string, otherwise a value that depends on
\* the per-process seed; hash() of a bool is its integer value.
StrCode(s) ==
    CASE s = "name" -> 1 [] s = "debug" -> 2 [] s = "is_clone" -> 4
      [] s = "a" -> 7 [] OTHER -> 11

StrHash(s) == IF s = "" THEN 0 ELSE (StrCode(s) * (2 * hseed + 3)) % 32

\* a keyword value is a str or a bool
Str(s) == [t |-> "str", s |-> s, b |-> FALSE]
Bool(b) == [t |-> "bool", s |-> "", b |-> b]

PyHash(v) == IF v.t = "bool" THEN (IF v.b THEN 1 ELSE 0) ELSE StrHash(v.s)

\* for key, value in kargs.items(): hash_value ^= (hash(key) << 16) ^ hash(value)
RECURSIVE HashFrom(_, _, _)
HashFrom(kargs, i, acc) ==
    IF i > Len(kargs) THEN acc
    ELSE HashFrom(kargs, i + 1,
                  BitXor(BitXor(acc, Shl(StrHash(kargs[i][1]), ShiftBits)),
                         PyHash(kargs[i][2])))

\* a cache key that multiplies the hash of each key with the hash of its value
RECURSIVE HashKwargs_multiplied(_)
HashKwargs_multiplied(kargs) ==
    IF kargs = <<>> THEN 0
    ELSE ((StrHash(Head(kargs)[1]) + 1) * (PyHash(Head(kargs)[2]) + 1))
            + HashKwargs_multiplied(Tail(kargs))

HashKwargs(kargs) == HashFrom(kargs, 1, 0)

\* the mapping a keyword list denotes (keyword order forgotten)
Mapping(kargs) == {kargs[i] : i \in 1..Len(kargs)}

HasKey(kargs, key) == \E i \in 1..Len(kargs) : kargs[i][1] = key

KwGet(kargs, key, default) ==
    IF HasKey(kargs, key)
    THEN (CHOOSE p \in Mapping(kargs) : p[1] = key)[2]
    ELSE default

\* kargs["is_clone"] = True
KwSetClone(kargs) ==
    IF HasKey(kargs, "is_clone")
    THEN [i \in 1..Len(kargs) |->
            IF kargs[i][1] = "is_clone" THEN <<"is_clone", Bool(TRUE)>> ELSE kargs[i]]
    ELSE Append(kargs, <<"is_clone", Bool(TRUE)>>)

HasBothFlags(kargs) == HasKey(kargs, "debug") /\ HasKey(kargs, "is_clone")

\* The keyword lists the callers pass to create.
KwName(n) == << <<"name", Str(n)>> >>
KwFull(n, d, c) ==
    << <<"name", Str(n)>>, <<"debug", Bool(d)>>, <<"is_clone", Bool(c)>> >>
KwFullRev(n, d, c) ==
    << <<"is_clone", Bool(c)>>, <<"debug", Bool(d)>>, <<"name", Str(n)>> >>

KwargsSet ==
    { KwName("a"), KwName(""),
      KwFull("a", TRUE, FALSE), KwFullRev("a", TRUE, FALSE),
      KwFull("a", FALSE, TRUE) }

-----------------------------------------------------------------------------
(* Generator.__init__ *)

\* the instance name of a new backend generator: its name for
\* Context.generator(name), empty for Context.empty_generator()
BackendInstanceName(real, name) == IF real THEN name ELSE ""

\* Context.generator(name) / Context.empty_generator(), then the fields
\* __init__ sets.  self is the identity of the object under construction.
NewGenerator(self, cls, name, debug, is_clone) ==
    LET real == (~is_clone) /\ name # ""
    IN [ cls           |-> cls,
         name          |-> name,
         instance_name |-> BackendInstanceName(real, name),
         is_cloned     |-> ~real,
         debug         |-> IF ~debug THEN global_debug ELSE debug,
         def_instance  |-> self,
         backend_def   |-> NoGen,
         queue         |-> <<>>,
         children      |-> EmptyMap,
         parent        |-> NoGen,
         ports         |-> {},
         vars          |-> {},
         params        |-> {},
         stmts         |-> <<>>,
         bchildren     |-> {},
         comments      |-> EmptyMap,
         labels        |-> EmptyMap,
         bnamed        |-> {},
         nblk          |-> 0,
         reg_next_stmt |-> EmptyMap,
         reg_init_stmt |-> EmptyMap,
         reg_en_stmt   |-> EmptyMap ]

\* cls(**kargs)
Instantiate(self, cls, kargs) ==
    NewGenerator(self, cls, KwGet(kargs, "name", Str("")).s,
                 KwGet(kargs, "debug", Bool(FALSE)).b,
                 KwGet(kargs, "is_clone", Bool(FALSE)).b)

\* the backend registers only generators made by Context.generator(name)
Registered(g) == IF g.is_cloned THEN {} ELSE {g.def_instance}

Call(op, g, ok, was_cloned, arg) ==
    [op |-> op, g |-> g, ok |-> ok, was_cloned |-> was_cloned, arg |-> arg]

-----------------------------------------------------------------------------
(* set_global_debug, Generator.create, Generator.clear_context *)

set_global_debug(value) ==
    /\ global_debug' = value
    /\ last' = Call("set_global_debug", NoGen, TRUE, FALSE, value)
    /\ UNCHANGED <<hseed, cache, gens, context, first_of>>

\* __cached_py_generator: the cache after the lookup
CacheStore(cls, h, self) ==
    IF h \notin DOMAIN cache[cls]
    THEN [cache EXCEPT ![cls] = @ @@ (h :> self)]
    ELSE cache

create(cls, kargs) ==
    LET self == Len(gens) + 1
        h == HashKwargs(kargs)
        hit == h \in DOMAIN cache[cls]
        key == <<cls, Mapping(kargs)>>
    IN /\ Len(gens) < MaxGen
       /\ IF global_debug
          THEN /\ gens' = Append(gens, Instantiate(self, cls, kargs))
               /\ context' = context \cup Registered(Instantiate(self, cls, kargs))
               /\ UNCHANGED <<cache, first_of>>
               /\ last' = Call("create", self, TRUE, FALSE,
                               [cls |-> cls, kargs |-> kargs, debug |-> TRUE,
                                hit |-> FALSE, first |-> NoGen])
          ELSE /\ cache' = CacheStore(cls, h, self)
               /\ IF ~hit
                  THEN /\ gens' = Append(gens, Instantiate(self, cls, kargs))
                       /\ context' = context \cup Registered(Instantiate(self, cls, kargs))
                  ELSE /\ gens' = Append(gens,
                              [Instantiate(self, cls, KwSetClone(kargs)) EXCEPT
                                  !.def_instance = cache[cls][h],
                                  !.backend_def = cache[cls][h]])
                       /\ UNCHANGED context
               /\ first_of' = IF key \in DOMAIN first_of THEN first_of
                              ELSE first_of @@ (key :> self)
               /\ last' = Call("create", self, TRUE, FALSE,
                               [cls |-> cls, kargs |-> kargs, debug |-> FALSE,
                                hit |-> hit,
                                first |-> IF key \in DOMAIN first_of
                                          THEN first_of[key] ELSE NoGen])
       /\ UNCHANGED <<global_debug, hseed>>

\* _kratos.Generator.clone() put in the place of the empty generator of a
\* new Generator(""): an empty generator flagged as cloned that carries the
\* name and the ports of the generator it was cloned from
BackendClone(blank, gen, d) ==
    [blank EXCEPT !.name = gen.name,
                  !.ports = gen.ports,
                  !.is_cloned = TRUE,
                  !.backend_def = d]

clone(cls, kargs) ==
    LET self == Len(gens) + 1
        h == HashKwargs(kargs)
        hit == h \in DOMAIN cache[cls]
        key == <<cls, Mapping(kargs)>>
    IN /\ Len(gens) < MaxGen
       /\ cache' = CacheStore(cls, h, self)
       /\ IF ~hit
          THEN /\ gens' = Append(gens, Instantiate(self, cls, kargs))
               /\ context' = context \cup Registered(Instantiate(self, cls, kargs))
          ELSE /\ gens' = Append(gens,
                      [BackendClone(NewGenerator(self, "Generator", "", FALSE, FALSE),
                                    gens[cache[cls][h]], cache[cls][h])
                          EXCEPT !.def_instance = cache[cls][h]])
               /\ UNCHANGED context
       /\ first_of' = IF key \in DOMAIN first_of THEN first_of
                      ELSE first_of @@ (key :> self)
       /\ last' = Call("clone", self, TRUE, FALSE,
                       [cls |-> cls, kargs |-> kargs, debug |-> FALSE,
                        hit |-> hit,
                        first |-> IF key \in DOMAIN first_of
                                  THEN first_of[key] ELSE NoGen])
       /\ UNCHANGED <<global_debug, hseed>>

clear_context ==
    /\ context' = {}
    /\ cache' = [c \in Classes |->
                    IF c \in Subclasses("Generator") THEN EmptyMap ELSE cache[c]]
    /\ first_of' = EmptyMap
    /\ last' = Call("clear_context", NoGen, TRUE, FALSE, FALSE)
    /\ UNCHANGED <<global_debug, hseed, gens>>

-----------------------------------------------------------------------------
(* Calls on one generator.  Each operator takes the objects G (the value of  *)
(* gens) and returns the objects after the call and whether the call         *)
(* returned (ok) or raised.                                                  *)

Ret(G, ok) == [G |-> G, ok |-> ok]

\* a call that raises: the objects as the call left them and the operands the
\* error message names
Raise(G, names) == [G |-> G, ok |-> FALSE, err |-> names]

\* an entry of __cached_initialization: the bound method and its arguments
Entry(fn, s1, s2, c, n, sq) ==
    [fn |-> fn, s1 |-> s1, s2 |-> s2, c |-> c, n |-> n, sq |-> sq]

\* self.__cached_initialization.append((fn, args)); return
Defer(G, g, entry) == Ret([G EXCEPT ![g].queue = Append(@, entry)], TRUE)

\* dict.pop(key) on a present key
MapPop(m, key) == [k \in (DOMAIN m) \ {key} |-> m[k]]

\* dict[key] = value
MapSet(m, key, value) == [k \in (DOMAIN m) \cup {key} |-> IF k = key THEN value ELSE m[k]]

\* _kratos.Generator.add_child_generator(instance_name, child)
BackendAddChild(G, g, instance_name, child) ==
    [G EXCEPT ![g].bchildren = @ \cup {child}]

\* _kratos.Generator.remove_child_generator(child)
BackendRemoveChild(G, g, child) ==
    [G EXCEPT ![g].bchildren = @ \ {child}]

\* _kratos.Generator.set_child_comment(instance_name, comment)
BackendSetChildComment(G, g, instance_name, comment) ==
    [G EXCEPT ![g].comments = MapSet(@, instance_name, comment)]

\* add_child_generator without the check for an existing instance name
add_child_generator_overwrites(G, g, instance_name, child, comment) ==
    IF G[g].is_cloned
    THEN Defer(G, g, Entry("add_child_generator", instance_name, "", "", child, <<>>))
    ELSE LET G1 == [G EXCEPT ![child].instance_name = instance_name]
             G2 == [G1 EXCEPT ![g].children = MapSet(@, instance_name, child)]
             G3 == [G2 EXCEPT ![child].parent = g]
             G4 == BackendAddChild(G3, g, instance_name, child)
         IN Ret(IF comment # ""
                THEN BackendSetChildComment(G4, g, instance_name, comment)
                ELSE G4, TRUE)

add_child_generator(G, g, instance_name, child, comment) ==
    IF G[g].is_cloned
    THEN Defer(G, g, Entry("add_child_generator", instance_name, "", "", child, <<>>))
    ELSE LET G1 == [G EXCEPT ![child].instance_name = instance_name]
         IN IF instance_name \in DOMAIN G1[g].children
            THEN Ret(G1, FALSE)
            ELSE LET G2 == [G1 EXCEPT ![g].children = MapSet(@, instance_name, child)]
                     G3 == [G2 EXCEPT ![child].parent = g]
                     G4 == BackendAddChild(G3, g, instance_name, child)
                 IN Ret(IF comment # ""
                        THEN BackendSetChildComment(G4, g, instance_name, comment)
                        ELSE G4, TRUE)

remove_child_generator(G, g, child) ==
    IF G[g].is_cloned
    THEN Defer(G, g, Entry("remove_child_generator", "", "", "", child, <<>>))
    ELSE IF G[child].instance_name \notin DOMAIN G[g].children
         THEN Ret(G, FALSE)
         ELSE LET G1 == [G EXCEPT ![g].children = MapPop(@, G[child].instance_name)]
              IN Ret(BackendRemoveChild(G1, g, child), TRUE)

\* _kratos.Generator.replace(child_name, new_child)
BackendReplace(G, g, child_name, new_child) ==
    [G EXCEPT ![g].bchildren =
        (@ \ {c \in @ : G[c].instance_name = child_name}) \cup {new_child}]

replace(G, g, child_name, new_child) ==
    IF child_name \notin DOMAIN G[g].children
    THEN Ret(G, FALSE)
    ELSE LET G1 == BackendReplace(G, g, child_name, new_child)
         IN Ret([G1 EXCEPT ![g].children = MapSet(@, child_name, new_child)], TRUE)

\* the instance_name setter
set_instance_name(G, g, name) ==
    LET p == G[g].parent
        old_name == G[g].instance_name
    IN IF p # NoGen
       THEN IF old_name \notin DOMAIN G[p].children
            THEN Ret(G, FALSE)                               \* pop: KeyError
            ELSE LET ref == G[p].children[old_name]
                     G1 == [G EXCEPT ![p].children = MapPop(@, old_name)]
                 IN IF ref # g
                    THEN Ret(G1, FALSE)                      \* assert ref == self
                    ELSE LET G2 == [G1 EXCEPT ![p].children = MapSet(@, name, g)]
                         IN Ret([G2 EXCEPT ![g].instance_name = name], TRUE)
       ELSE Ret([G EXCEPT ![g].instance_name = name], TRUE)

-----------------------------------------------------------------------------
(* Ports, variables, parameters, statements and code blocks *)

\* a port of the backend generator
PortRec(name, direction, port_type) ==
    [name |-> name, dir |-> direction, ptype |-> port_type]

\* names the backend generator already holds
Declared(gen) == {p.name : p \in gen.ports} \cup gen.vars \cup gen.params

\* _kratos.Generator.has_var: a port is a variable too
HasVar(gen, name) == name \in gen.vars \/ name \in {p.name : p \in gen.ports}

\* a statement of the backend generator; uid tells code blocks apart
Stmt(t, uid, a, b, c, n, sens, body) ==
    [t |-> t, uid |-> uid, a |-> a, b |-> b, c |-> c, n |-> n,
     sens |-> sens, body |-> body]

\* a statement object the caller built beforehand
UserStmt(s) == Stmt("stmt", 0, s, "", "", 0, <<>>, <<>>)

\* _kratos.Generator.port / var / parameter: the name must be new
BackendPort(G, g, name, direction, port_type) ==
    IF name \in Declared(G[g]) THEN Ret(G, FALSE)
    ELSE Ret([G EXCEPT ![g].ports = @ \cup {PortRec(name, direction, port_type)}], TRUE)

BackendVar(G, g, name) ==
    IF name \in Declared(G[g]) THEN Ret(G, FALSE)
    ELSE Ret([G EXCEPT ![g].vars = @ \cup {name}], TRUE)

BackendParameter(G, g, name) ==
    IF name \in Declared(G[g]) THEN Ret(G, FALSE)
    ELSE Ret([G EXCEPT ![g].params = @ \cup {name}], TRUE)

port(G, g, name, direction, port_type) == BackendPort(G, g, name, direction, port_type)

input(G, g, name, port_type) == BackendPort(G, g, name, "In", port_type)

output(G, g, name, port_type) == BackendPort(G, g, name, "Out", port_type)

var(G, g, name) == BackendVar(G, g, name)

parameter(G, g, name) == BackendParameter(G, g, name)

\* _kratos.Generator.add_stmt / remove_stmt
BackendAddStmt(G, g, st) == [G EXCEPT ![g].stmts = Append(@, st)]

RECURSIVE SeqRemove(_, _)
SeqRemove(sq, x) ==
    IF sq = <<>> THEN <<>>
    ELSE IF Head(sq) = x THEN Tail(sq)
    ELSE <<Head(sq)>> \o SeqRemove(Tail(sq), x)

BackendRemoveStmt(G, g, st) == [G EXCEPT ![g].stmts = SeqRemove(@, st)]

\* add_stmt without the is_cloned test
add_stmt_undeferred(G, g, st) == Ret(BackendAddStmt(G, g, UserStmt(st)), TRUE)

add_stmt(G, g, st) ==
    IF G[g].is_cloned
    THEN Defer(G, g, Entry("add_stmt", st, "", "", 0, <<>>))
    ELSE Ret(BackendAddStmt(G, g, UserStmt(st)), TRUE)

remove_stmt(G, g, st) ==
    IF G[g].is_cloned
    THEN Defer(G, g, Entry("remove_stmt", st, "", "", 0, <<>>))
    ELSE Ret(BackendRemoveStmt(G, g, UserStmt(st)), TRUE)

\* The signals the callers wire: an input port "i", two output ports "o" and
\* "o2" and a variable "v" of the generator, and a variable "x" of an
\* unrelated generator.
Signals == {"i", "o", "o2", "v", "x"}
IsPort(sig) == sig \in {"i", "o", "o2"}
PortDirectionOf(sig) == IF sig = "i" THEN "In" ELSE "Out"

\* _kratos.Generator.wire_ports(to, from): the output is driven by the input;
\* two ports of the same direction conflict
BackendWirePorts(G, g, var_to, var_from) ==
    IF PortDirectionOf(var_to) = PortDirectionOf(var_from)
    THEN Raise(G, <<var_to, var_from>>)
    ELSE LET dst == IF PortDirectionOf(var_to) = "Out" THEN var_to ELSE var_from
             src == IF PortDirectionOf(var_to) = "Out" THEN var_from ELSE var_to
         IN Ret(BackendAddStmt(G, g, Stmt("assign", 0, dst, src, "", 0, <<>>, <<>>)), TRUE)

\* _kratos.Generator.correct_wire_direction(a, b): (correct_dir, correct_assign)
BackendCorrectWireDirection(a, b) ==
    [correct_dir |-> a # "i", correct_assign |-> a # "x" /\ b # "x" /\ a # b]

\* comment_node(stmt, comment_str) / stmt.add_attribute(attr) on the statement
\* the generator added last
TouchLast(G, g, attributes, comment_str) ==
    LET k == Len(G[g].stmts)
    IN [G EXCEPT ![g].stmts[k].n = IF attributes # 0 THEN attributes ELSE @,
                 ![g].stmts[k].c = IF comment_str # "" THEN comment_str ELSE @]

\* Generator.add_stmt on a generator that is not cloned, for any statement
AddStmtNow(G, g, st) == Ret(BackendAddStmt(G, g, st), TRUE)

\* assign that never turns the assignment round
assign_unflipped(G, g, a, b) ==
    LET d == BackendCorrectWireDirection(a, b)
    IN IF ~d.correct_assign THEN Raise(G, <<a, b>>)
       ELSE AddStmtNow(G, g, Stmt("assign", 0, a, b, "", 0, <<>>, <<>>))

\* __assign(var_from, var_to), called as __assign(var_to, var_from)
assign(G, g, a, b) ==
    LET d == BackendCorrectWireDirection(a, b)
    IN IF ~d.correct_assign THEN Raise(G, <<a, b>>)
       ELSE IF d.correct_dir
            THEN AddStmtNow(G, g, Stmt("assign", 0, a, b, "", 0, <<>>, <<>>))
            ELSE AddStmtNow(G, g, Stmt("assign", 0, b, a, "", 0, <<>>, <<>>))

wire(G, g, var_to, var_from, attributes, comment_str) ==
    IF G[g].is_cloned
    THEN Defer(G, g, Entry("wire", var_to, var_from, comment_str, attributes, <<>>))
    ELSE LET r == IF IsPort(var_to) /\ IsPort(var_from)
                  THEN BackendWirePorts(G, g, var_to, var_from)
                  ELSE assign(G, g, var_to, var_from)
         IN IF ~r.ok THEN r
            ELSE Ret(TouchLast(r.G, g, attributes, comment_str), TRUE)

\* _kratos.Generator.combinational() / sequential(): a new empty block, added
\* to the generator
BackendNewBlock(G, g, kind) ==
    [G EXCEPT ![g].nblk = @ + 1,
              ![g].stmts = Append(@, Stmt(kind, G[g].nblk + 1, "", "", "", 0, <<>>, <<>>))]

\* CodeBlock.__init__
CodeBlock(G, g, kind) == BackendNewBlock(G, g, kind)

EdgeTypes == {"Posedge", "Negedge"}

\* The Python values that occur in a sensitivity list: a member of
\* BlockEdgeType, a _kratos.Var object, a str, and a tuple of such values.
PyEdge(k) == [t |-> "edge", s |-> k, items |-> <<>>]
PyVar(v) == [t |-> "var", s |-> v, items |-> <<>>]
PyStr(str) == [t |-> "str", s |-> str, items |-> <<>>]
PyTuple(items) == [t |-> "tuple", s |-> "", items |-> items]

\* an (edge, signal) entry as the callers write it
SensEntry(edge, sig) == PyTuple(<<PyEdge(edge), PyVar(sig)>>)

\* isinstance(cond, BlockEdgeType) / isinstance(var, _kratos.Var)
IsEdgeType(c) == c.t = "edge"
IsVarObject(v) == v.t = "var"

\* SequentialCodeBlock.__init__: the block first, then one condition per entry
RECURSIVE AddConditions(_, _, _, _)
AddConditions(G, g, sensitivity_list, i) ==
    IF i > Len(sensitivity_list) THEN Ret(G, TRUE)
    ELSE LET e == sensitivity_list[i]
             k == Len(G[g].stmts)
         IN IF e.t # "tuple" \/ Len(e.items) # 2           \* for cond, var in ...
            THEN Ret(G, FALSE)
            ELSE IF ~IsEdgeType(e.items[1]) \/ ~IsVarObject(e.items[2])
            THEN Ret(G, FALSE)
            ELSE AddConditions(
                    [G EXCEPT ![g].stmts[k].sens =
                                  Append(@, <<e.items[1].s, e.items[2].s>>)],
                    g, sensitivity_list, i + 1)

SequentialCodeBlock(G, g, sensitivity_list) ==
    AddConditions(CodeBlock(G, g, "seq"), g, sensitivity_list, 1)

CombinationalCodeBlock(G, g) == Ret(CodeBlock(G, g, "comb"), TRUE)

combinational(G, g) ==
    IF G[g].is_cloned
    THEN Defer(G, g, Entry("combinational", "", "", "", 0, <<>>))
    ELSE CombinationalCodeBlock(G, g)

sequential(G, g, sensitivity_list) ==
    IF G[g].is_cloned
    THEN Defer(G, g, Entry("sequential", "", "", "", 0, sensitivity_list))
    ELSE SequentialCodeBlock(G, g, sensitivity_list)

\* mark_stmt without the test for a label that exists
mark_stmt_overwrites(G, g, name, stmt) ==
    Ret([G EXCEPT ![g].labels = MapSet(@, name, stmt),
                  ![g].bnamed = @ \cup {name}], TRUE)

\* mark_stmt(name, stmt): stmt is the handle of a block, told apart by its uid
mark_stmt(G, g, name, stmt) ==
    IF name \in G[g].bnamed THEN Ret(G, FALSE)
    ELSE Ret([G EXCEPT ![g].labels = MapSet(@, name, stmt),
                       ![g].bnamed = @ \cup {name}], TRUE)

\* get_marked_stmt(name): the handle, or the failed assertion
get_marked_stmt(G, g, name) ==
    IF name \notin DOMAIN G[g].labels
    THEN [G |-> G, ok |-> FALSE, ret |-> NoGen]
    ELSE [G |-> G, ok |-> TRUE, ret |-> G[g].labels[name]]

\* transform_stmt_block(self, fn): the statement compiler's result for the
\* functions the callers pass
Functions == {"f_comb", "f_seq"}

TransformStmtBlock(fn) ==
    IF fn = "f_comb"
    THEN [raw_sensitives |-> <<>>, stmts |-> <<UserStmt("s1")>>]
    ELSE [raw_sensitives |-> << <<"Posedge", "v">> >>, stmts |-> <<UserStmt("s1")>>]

\* CodeBlock.add_stmt for every compiled statement, on the block added last
FillBlock(G, g, stmts) ==
    [G EXCEPT ![g].stmts[Len(G[g].stmts)].body = @ \o stmts]

add_code(G, g, fn, comment_str, label) ==
    IF G[g].is_cloned
    THEN Defer(G, g, Entry("add_code", fn, "", "", 0, <<>>))
    ELSE LET t == TransformStmtBlock(fn)
             r == IF Len(t.raw_sensitives) = 0
                  THEN CombinationalCodeBlock(G, g)
                  ELSE IF \E i \in 1..Len(t.raw_sensitives) :
                              ~HasVar(G[g], t.raw_sensitives[i][2])
                       THEN Ret(G, FALSE)                 \* get_var raises
                       ELSE SequentialCodeBlock(G, g,
                               [i \in 1..Len(t.raw_sensitives) |->
                                   SensEntry(t.raw_sensitives[i][1],
                                             t.raw_sensitives[i][2])])
         IN IF ~r.ok THEN r
            ELSE LET G1 == TouchLast(FillBlock(r.G, g, t.stmts), g, 0, comment_str)
                 IN IF label # ""
                    THEN mark_stmt(G1, g, label, G1[g].stmts[Len(G1[g].stmts)].uid)
                    ELSE Ret(G1, TRUE)

-----------------------------------------------------------------------------
(* The register helpers reg_next, reg_init and reg_enable.  Signals are      *)
(* passed by name, None is the empty name.                                   *)

None == ""

\* _kratos.Generator.get_ports(port_type): the names of the ports of a type
GetPorts(gen, port_type) == {p.name : p \in {q \in gen.ports : q.ptype = port_type}}

\* _kratos.Generator.has_port / get_port
HasPort(gen, name) == name \in {p.name : p \in gen.ports}

\* __get_port_name_type(port, port_type); first is clock_names[0], the name
\* the backend lists first
get_port_name_type(gen, given, port_type, first) ==
    IF given = None /\ GetPorts(gen, port_type) = {}
    THEN [ok |-> FALSE, name |-> None]              \* assert len(clock_names) > 0
    ELSE LET name == IF given = None THEN first ELSE given
         IN IF ~HasPort(gen, name)
            THEN [ok |-> FALSE, name |-> None]      \* self.ports[port] raises
            ELSE [ok |-> TRUE, name |-> name]

\* var_from.assign(var_to) as a statement object
AssignStmt(a, b) == Stmt("assign", 0, a, b, "", 0, <<>>, <<>>)

\* stmts.if_(predicate): an if statement with an empty then and else body
IfStmt(predicate) ==
    [t |-> "if", a |-> predicate, then_body |-> <<>>, else_body |-> <<>>]

\* the place of a block in the statement list of its generator
BlockIndex(gen, uid) == CHOOSE k \in 1..Len(gen.stmts) : gen.stmts[k].uid = uid

\* CodeBlock.add_stmt(stmt)
BlockAddStmt(G, g, uid, st) ==
    [G EXCEPT ![g].stmts[BlockIndex(G[g], uid)].body = Append(@, st)]

\* CodeBlock.if_(predicate): the if statement becomes a statement of the block
BlockIf(G, g, uid, predicate) == BlockAddStmt(G, g, uid, IfStmt(predicate))

\* if_stmt.then_body().add_stmt(stmt) / if_stmt.else_body().add_stmt(stmt) for
\* the if statement that opens block uid
ThenAddStmt(G, g, uid, st) ==
    [G EXCEPT ![g].stmts[BlockIndex(G[g], uid)].body[1].then_body = Append(@, st)]

ElseAddStmt(G, g, uid, st) ==
    [G EXCEPT ![g].stmts[BlockIndex(G[g], uid)].body[1].else_body = Append(@, st)]

\* what self.sequential(...) returned: the new block, or None on a clone
Returned(G, g, r) == IF G[g].is_cloned THEN NoGen ELSE r.G[g].nblk

\* reg_next that never looks a clock up in __reg_next_stmt
reg_next_uncached(G, g, var_name, source, clk, first) ==
    LET c == get_port_name_type(G[g], clk, "Clock", first)
    IN IF ~c.ok THEN Ret(G, FALSE)
       ELSE LET r == sequential(G, g, <<SensEntry("Posedge", c.name)>>)
                G1 == [r.G EXCEPT ![g].reg_next_stmt =
                                      MapSet(@, c.name, Returned(G, g, r))]
                blk == G1[g].reg_next_stmt[c.name]
            IN IF ~r.ok THEN r
               ELSE IF ~HasVar(G1[g], source) THEN Ret(G1, FALSE)
               ELSE LET v == var(G1, g, var_name)
                    IN IF ~v.ok THEN v
                       ELSE IF blk = NoGen THEN Ret(v.G, FALSE)
                       ELSE Ret(BlockAddStmt(v.G, g, blk, AssignStmt(var_name, source)),
                                TRUE)

reg_next(G, g, var_name, source, clk, first) ==
    LET c == get_port_name_type(G[g], clk, "Clock", first)
    IN IF ~c.ok THEN Ret(G, FALSE)
       ELSE LET fresh == c.name \notin DOMAIN G[g].reg_next_stmt
                r == IF fresh
                     THEN sequential(G, g, <<SensEntry("Posedge", c.name)>>)
                     ELSE Ret(G, TRUE)
                G1 == IF fresh
                      THEN [r.G EXCEPT ![g].reg_next_stmt =
                                          MapSet(@, c.name, Returned(G, g, r))]
                      ELSE G
                blk == G1[g].reg_next_stmt[c.name]
            IN IF ~r.ok THEN r
               ELSE IF ~HasVar(G1[g], source) THEN Ret(G1, FALSE)  \* self.vars[var]
               ELSE LET v == var(G1, g, var_name)
                    IN IF ~v.ok THEN v
                       ELSE IF blk = NoGen THEN Ret(v.G, FALSE)   \* None.add_stmt
                       ELSE Ret(BlockAddStmt(v.G, g, blk, AssignStmt(var_name, source)),
                                TRUE)

\* reg_init with the two bodies of the branch exchanged
reg_init_swapped(G, g, var_name, source, clk, reset, init_value, first_clk, first_rst) ==
    LET c == get_port_name_type(G[g], clk, "Clock", first_clk)
        rs == get_port_name_type(G[g], reset, "AsyncReset", first_rst)
        key == <<c.name, rs.name>>
    IN IF ~c.ok \/ ~rs.ok THEN Ret(G, FALSE)
       ELSE LET fresh == key \notin DOMAIN G[g].reg_init_stmt
                r == IF fresh
                     THEN sequential(G, g, <<SensEntry("Posedge", c.name),
                                             SensEntry("Posedge", rs.name)>>)
                     ELSE Ret(G, TRUE)
            IN IF ~r.ok THEN r
               ELSE IF fresh /\ G[g].is_cloned THEN Ret(r.G, FALSE)
               ELSE LET G1 == IF fresh
                              THEN [BlockIf(r.G, g, Returned(G, g, r), rs.name)
                                      EXCEPT ![g].reg_init_stmt =
                                                MapSet(@, key, Returned(G, g, r))]
                              ELSE G
                        blk == G1[g].reg_init_stmt[key]
                    IN IF ~HasVar(G1[g], source) THEN Ret(G1, FALSE)
                       ELSE LET v == var(G1, g, var_name)
                            IN IF ~v.ok THEN v
                               ELSE Ret(ElseAddStmt(
                                          ThenAddStmt(v.G, g, blk,
                                                      AssignStmt(var_name, source)),
                                          g, blk, AssignStmt(var_name, init_value)),
                                        TRUE)

reg_init(G, g, var_name, source, clk, reset, init_value, first_clk, first_rst) ==
    LET c == get_port_name_type(G[g], clk, "Clock", first_clk)
        rs == get_port_name_type(G[g], reset, "AsyncReset", first_rst)
        key == <<c.name, rs.name>>
    IN IF ~c.ok \/ ~rs.ok THEN Ret(G, FALSE)
       ELSE LET fresh == key \notin DOMAIN G[g].reg_init_stmt
                r == IF fresh
                     THEN sequential(G, g, <<SensEntry("Posedge", c.name),
                                             SensEntry("Posedge", rs.name)>>)
                     ELSE Ret(G, TRUE)
            IN IF ~r.ok THEN r
               ELSE IF fresh /\ G[g].is_cloned THEN Ret(r.G, FALSE)  \* None.if_
               ELSE LET G1 == IF fresh
                              THEN [BlockIf(r.G, g, Returned(G, g, r), rs.name)
                                      EXCEPT ![g].reg_init_stmt =
                                                MapSet(@, key, Returned(G, g, r))]
                              ELSE G
                        blk == G1[g].reg_init_stmt[key]
                    IN IF ~HasVar(G1[g], source) THEN Ret(G1, FALSE)
                       ELSE LET v == var(G1, g, var_name)
                            IN IF ~v.ok THEN v
                               ELSE Ret(ThenAddStmt(
                                          ElseAddStmt(v.G, g, blk,
                                                      AssignStmt(var_name, source)),
                                          g, blk, AssignStmt(var_name, init_value)),
                                        TRUE)

\* a source or an enable given by name is looked up among the ports
reg_enable(G, g, var_name, source, en, clk, first) ==
    LET c == get_port_name_type(G[g], clk, "Clock", first)
        key == <<c.name, en>>
    IN IF ~c.ok THEN Ret(G, FALSE)
       ELSE IF ~HasPort(G[g], source) \/ ~HasPort(G[g], en) THEN Ret(G, FALSE)
       ELSE LET fresh == key \notin DOMAIN G[g].reg_en_stmt
                r == IF fresh
                     THEN sequential(G, g, <<SensEntry("Posedge", c.name)>>)
                     ELSE Ret(G, TRUE)
            IN IF ~r.ok THEN r
               ELSE IF fresh /\ G[g].is_cloned THEN Ret(r.G, FALSE)  \* None.if_
               ELSE LET G1 == IF fresh
                              THEN [BlockIf(r.G, g, Returned(G, g, r), en)
                                      EXCEPT ![g].reg_en_stmt =
                                                MapSet(@, key, Returned(G, g, r))]
                              ELSE G
                        blk == G1[g].reg_en_stmt[key]
                        v == var(G1, g, var_name)
                    IN IF ~v.ok THEN v
                       ELSE Ret(ThenAddStmt(v.G, g, blk, AssignStmt(var_name, source)),
                                TRUE)

-----------------------------------------------------------------------------
(* initialize_clone *)

\* fn(*args) for one recorded entry.  sequential recorded [sensitivity_list],
\* the tuple of its entries as one argument, so the replayed call receives
\* that tuple as its only entry.
ApplyEntry(G, g, e) ==
    CASE e.fn = "add_stmt" -> add_stmt(G, g, e.s1)
      [] e.fn = "remove_stmt" -> remove_stmt(G, g, e.s1)
      [] e.fn = "wire" -> wire(G, g, e.s1, e.s2, e.n, e.c)
      [] e.fn = "add_child_generator" -> add_child_generator(G, g, e.s1, e.n, "")
      [] e.fn = "remove_child_generator" -> remove_child_generator(G, g, e.n)
      [] e.fn = "combinational" -> combinational(G, g)
      [] e.fn = "sequential" -> sequential(G, g, <<PyTuple(e.sq)>>)
      [] OTHER -> add_code(G, g, e.s1, "", "")

\* for fn, args in self.__cached_initialization: fn(*args)
RECURSIVE Replay(_, _, _, _, _)
Replay(G, g, queue, i, trace) ==
    IF i > Len(queue) THEN [G |-> G, ok |-> TRUE, trace |-> trace]
    ELSE LET r == ApplyEntry(G, g, queue[i])
         IN IF r.ok
            THEN Replay(r.G, g, queue, i + 1, Append(trace, queue[i]))
            ELSE [G |-> r.G, ok |-> FALSE, trace |-> Append(trace, queue[i])]

RECURSIVE Reverse(_)
Reverse(sq) == IF sq = <<>> THEN <<>> ELSE Append(Reverse(Tail(sq)), Head(sq))

\* initialize_clone taking the recorded entries from the end of the list
initialize_clone_reversed(G, g) ==
    IF G[g].is_cloned
    THEN LET r == Replay([G EXCEPT ![g].is_cloned = FALSE], g,
                         Reverse(G[g].queue), 1, <<>>)
         IN IF r.ok
            THEN [G |-> [r.G EXCEPT ![g].queue = <<>>], ok |-> TRUE, trace |-> r.trace]
            ELSE r
    ELSE [G |-> G, ok |-> TRUE, trace |-> <<>>]

\* initialize_clone without the is_cloned test
initialize_clone_unguarded(G, g) ==
    LET r == Replay([G EXCEPT ![g].is_cloned = FALSE], g, G[g].queue, 1, <<>>)
    IN IF r.ok
       THEN [G |-> [r.G EXCEPT ![g].queue = <<>>], ok |-> TRUE, trace |-> r.trace]
       ELSE r

initialize_clone(G, g) ==
    IF G[g].is_cloned
    THEN LET r == Replay([G EXCEPT ![g].is_cloned = FALSE], g, G[g].queue, 1, <<>>)
         IN IF r.ok
            THEN [G |-> [r.G EXCEPT ![g].queue = <<>>], ok |-> TRUE, trace |-> r.trace]
            ELSE r
    ELSE [G |-> G, ok |-> TRUE, trace |-> <<>>]

-----------------------------------------------------------------------------
(* The callers' inputs *)

InstNames == {"x", "y"}
\* the first generator built is the one that is given children
Parents == GenIds \cap {1}

\* Generator(name): the constructor called directly
Construct ==
    \E cls \in {"Generator"}, name \in {"a"} :
        /\ Len(gens) < MaxGen
        /\ gens' = Append(gens, NewGenerator(Len(gens) + 1, cls, name, FALSE, FALSE))
        /\ context' = context \cup {Len(gens) + 1}
        /\ last' = Call("construct", Len(gens) + 1, TRUE, FALSE, name)
        /\ UNCHANGED <<global_debug, hseed, cache, first_of>>

\* a call on generator g that changes only the objects
Invoke(op, g, r, arg) ==
    /\ gens' = r.G
    /\ last' = Call(op, g, r.ok, gens[g].is_cloned, arg)
    /\ UNCHANGED <<global_debug, hseed, cache, context, first_of>>

\* the bound on what one generator holds: deferred calls while it is cloned,
\* statements afterwards
Room(g) ==
    IF gens[g].is_cloned THEN Len(gens[g].queue) < MaxQueue
    ELSE Len(gens[g].stmts) < MaxStmts

AddChildOn(targets, names, comments) ==
    \E g \in targets, n \in names, c \in comments : \E child \in GenIds \ {g} :
        /\ Room(g)
        /\ Invoke("add_child_generator", g, add_child_generator(gens, g, n, child, c),
                  [name |-> n, child |-> child, comment |-> c,
                   had |-> n \in DOMAIN gens[g].children,
                   prev |-> IF n \in DOMAIN gens[g].children
                            THEN gens[g].children[n] ELSE NoGen])

RemoveChildOn(targets) ==
    \E g \in targets : \E child \in GenIds \ {g} :
        /\ Room(g)
        /\ Invoke("remove_child_generator", g, remove_child_generator(gens, g, child),
                  [child |-> child,
                   registered |-> \E n \in DOMAIN gens[g].children :
                                     gens[g].children[n] = child])

AddChild == AddChildOn(Parents, InstNames, {""})

RemoveChild == RemoveChildOn(Parents)

Replace ==
    \E g \in Parents, n \in InstNames : \E child \in GenIds \ {g} :
        Invoke("replace", g, replace(gens, g, n, child), [name |-> n, child |-> child])

Rename ==
    \E g \in GenIds, n \in InstNames :
        Invoke("instance_name", g, set_instance_name(gens, g, n),
               [name |-> n, parent |-> gens[g].parent])

NextHier == Construct \/ AddChild \/ RemoveChild \/ Replace \/ Rename

\* the generators whose construction is deferred: the clones create returned
Clones == {g \in GenIds : gens[g].def_instance # g}

\* one name for ports, variables and parameters: a second declaration of it
\* is the backend's duplicate error
DeclNames == {"p"}
StmtHandles == {"s1", "s2"}
WirePairs == {<<"o", "i">>, <<"o", "o">>}
SensLists ==
    { <<SensEntry("Posedge", "v")>>,
      <<PyTuple(<<PyEdge("Posedge"), PyStr("clk")>>)>> }

CreateClone ==
    \E kargs \in {KwName("a")} :
        Len(gens) <= MaxClones /\ create("Generator", kargs)

PortCall ==
    \E g \in Clones, n \in DeclNames, m \in {"port", "input", "output"} :
        Invoke(m, g,
               CASE m = "port" -> port(gens, g, n, "Out", "Data")
                 [] m = "input" -> input(gens, g, n, "Data")
                 [] OTHER -> output(gens, g, n, "Data"),
               n)

VarCall == \E g \in Clones, n \in DeclNames : Invoke("var", g, var(gens, g, n), n)

ParameterCall ==
    \E g \in Clones, n \in DeclNames : Invoke("parameter", g, parameter(gens, g, n), n)

AddStmt ==
    \E g \in Clones, st \in StmtHandles :
        Room(g) /\ Invoke("add_stmt", g, add_stmt(gens, g, st), st)

RemoveStmt ==
    \E g \in Clones, st \in {"s1"} :
        Room(g) /\ Invoke("remove_stmt", g, remove_stmt(gens, g, st), st)

Wire ==
    \E g \in Clones, w \in WirePairs :
        Room(g) /\ Invoke("wire", g, wire(gens, g, w[1], w[2], 0, ""), w)

Combinational ==
    \E g \in Clones : Room(g) /\ Invoke("combinational", g, combinational(gens, g), FALSE)

Sequential ==
    \E g \in Clones, sl \in SensLists :
        Room(g) /\ Invoke("sequential", g, sequential(gens, g, sl), sl)

AddCode ==
    \E g \in Clones, fn \in {"f_comb"} :
        Room(g) /\ Invoke("add_code", g, add_code(gens, g, fn, "", ""), fn)

CloneAddChild == AddChildOn(Clones, {"x"}, {""})

CloneRemoveChild == RemoveChildOn(Clones)

InitializeClone ==
    \E g \in GenIds :
        LET r == initialize_clone(gens, g)
        IN Invoke("initialize_clone", g, r, r.trace)

NextClone ==
    \/ CreateClone \/ PortCall \/ VarCall \/ ParameterCall
    \/ AddStmt \/ RemoveStmt \/ Wire \/ Combinational \/ Sequential \/ AddCode
    \/ CloneAddChild \/ CloneRemoveChild \/ InitializeClone

-----------------------------------------------------------------------------

Init ==
    /\ global_debug = FALSE
    /\ hseed \in 0..MaxSeed
    /\ cache = [c \in Classes |-> EmptyMap]
    /\ gens = <<>>
    /\ context = {}
    /\ first_of = EmptyMap
    /\ last = Call("init", NoGen, TRUE, FALSE, FALSE)

SetDebug == \E value \in BOOLEAN : set_global_debug(value)
Create == \E cls \in Classes, kargs \in KwargsSet : create(cls, kargs)
ClearContext == clear_context

NextCache == SetDebug \/ Create \/ ClearContext

SpecCache == Init /\ [][NextCache]_vars

\* create on the base class and on a subclass with keyword lists that carry
\* both flags, the ones whose values can be exchanged
CreateFlagged ==
    \E cls \in {"Generator", "A"}, kargs \in {k \in KwargsSet : HasBothFlags(k)} :
        create(cls, kargs)

NextKey == SetDebug \/ CreateFlagged \/ ClearContext

SpecKey == Init /\ [][NextKey]_vars

InitHier == Init /\ hseed = 0

SpecHier == InitHier /\ [][NextHier]_vars

SpecClone == InitHier /\ [][NextClone]_vars

-----------------------------------------------------------------------------
(* Wiring on a generator that was constructed directly.  The first generator *)
(* built is the one the calls are made on; the second one owns "x".          *)

Subjects == GenIds \cap {1}

OwnerOf(sig) == IF sig = "x" THEN 2 ELSE 1

\* the caller holds the object of a signal once it has declared it
Held(sig) ==
    /\ OwnerOf(sig) \in GenIds
    /\ HasVar(gens[OwnerOf(sig)], sig)

\* self.input(name) / self.output(name) / self.var(name) for the signals above
DeclareSignalOf(signals) ==
    \E sig \in signals :
        /\ OwnerOf(sig) \in GenIds
        /\ Invoke(IF ~IsPort(sig) THEN "var"
                  ELSE IF PortDirectionOf(sig) = "In" THEN "input" ELSE "output",
                  OwnerOf(sig),
                  IF ~IsPort(sig) THEN var(gens, OwnerOf(sig), sig)
                  ELSE IF PortDirectionOf(sig) = "In"
                       THEN input(gens, OwnerOf(sig), sig, "Data")
                       ELSE output(gens, OwnerOf(sig), sig, "Data"),
                  sig)

DeclareSignal == DeclareSignalOf(Signals)

WireNow ==
    \E g \in Subjects, var_to \in Signals, var_from \in Signals :
        /\ Held(var_to) /\ Held(var_from)
        /\ Room(g)
        /\ LET r == wire(gens, g, var_to, var_from, 0, "")
           IN Invoke("wire", g, r,
                     [var_to |-> var_to, var_from |-> var_from,
                      err |-> IF r.ok THEN <<>> ELSE r.err])

NextWire == Construct \/ DeclareSignal \/ WireNow

SpecWire == InitHier /\ [][NextWire]_vars

-----------------------------------------------------------------------------
(* Code blocks and statement labels on a generator that was constructed      *)
(* directly.                                                                 *)

\* the sensitivity lists the callers pass: signals of the generator, the
\* signal of the unrelated generator, a name instead of a signal, a value
\* that is no edge kind, and an entry that is not a pair
SensListsNow ==
    { <<SensEntry("Posedge", "v")>>,
      <<SensEntry("Posedge", "x")>>,
      <<PyTuple(<<PyEdge("Posedge"), PyStr("clk")>>)>>,
      <<PyTuple(<<PyStr("High"), PyVar("v")>>)>>,
      <<PyTuple(<<PyEdge("Posedge")>>)>>,
      <<SensEntry("Posedge", "v"), SensEntry("Negedge", "x")>>,
      <<SensEntry("Posedge", "v"), PyTuple(<<PyEdge("Negedge"), PyStr("clk")>>)>> }

\* self.var(name) for the signals of those lists
DeclareVar == DeclareSignalOf({"v", "x"})

\* the caller holds every signal object it passes
HeldAll(sl) ==
    \A i \in 1..Len(sl) : \A j \in 1..Len(sl[i].items) :
        IsVarObject(sl[i].items[j]) => Held(sl[i].items[j].s)

Labels == {"L", "M"}

\* the handles of the blocks a generator holds
BlockHandles(g) ==
    {gens[g].stmts[k].uid : k \in {j \in 1..Len(gens[g].stmts) : gens[g].stmts[j].uid > 0}}

CombinationalNow ==
    \E g \in Subjects :
        Room(g) /\ Invoke("combinational", g, combinational(gens, g), FALSE)

SequentialNow ==
    \E g \in Subjects, sl \in SensListsNow :
        /\ HeldAll(sl)
        /\ Room(g)
        /\ Invoke("sequential", g, sequential(gens, g, sl), sl)

AddCodeNow ==
    \E g \in Subjects, fn \in Functions, label \in {"", "L"} :
        /\ Room(g)
        /\ Invoke("add_code", g, add_code(gens, g, fn, "", label),
                  [fn |-> fn, label |-> label])

MarkStmt ==
    \E g \in Subjects, name \in Labels : \E stmt \in BlockHandles(g) :
        Invoke("mark_stmt", g, mark_stmt(gens, g, name, stmt),
               [name |-> name, stmt |-> stmt])

GetMarkedStmt ==
    \E g \in Subjects, name \in Labels :
        LET r == get_marked_stmt(gens, g, name)
        IN Invoke("get_marked_stmt", g, r, [name |-> name, ret |-> r.ret])

NextBlock ==
    \/ Construct \/ DeclareVar \/ CombinationalNow \/ SequentialNow
    \/ AddCodeNow \/ MarkStmt \/ GetMarkedStmt

SpecBlock == InitHier /\ [][NextBlock]_vars

-----------------------------------------------------------------------------
(* Definition cache: C1, C2, C6, C7 *)

AsksForClone(kargs) == KwGet(kargs, "is_clone", Bool(FALSE)).b

\* C1: with global debug off and no clear_context in between, a create whose
\* keyword mapping equals that of an earlier create on the same class returns
\* a generator flagged is_cloned whose def_instance is the instance the first
\* create with that mapping returned.
C1_EqualMappingsShareFirstInstance ==
    (last.op = "create" /\ ~last.arg.debug /\ last.arg.first # NoGen)
        => /\ gens[last.g].is_cloned
           /\ gens[last.g].def_instance = last.arg.first

\* C2: on a cache miss create stores the new instance in the class cache under
\* the mapping's hash and returns it as a non-clone (is_cloned false,
\* def_instance itself), whatever the value of name.  Stated for callers that
\* do not pass is_clone=True themselves.
C2_MissReturnsStoredNonClone ==
    (last.op = "create" /\ ~last.arg.debug /\ ~last.arg.hit
        /\ ~AsksForClone(last.arg.kargs))
        => /\ HashKwargs(last.arg.kargs) \in DOMAIN cache[last.arg.cls]
           /\ cache[last.arg.cls][HashKwargs(last.arg.kargs)] = last.g
           /\ ~gens[last.g].is_cloned
           /\ gens[last.g].def_instance = last.g

\* C6: while the global debug switch is on, create leaves every class cache as
\* it was and returns a fresh non-clone instance (is_cloned false,
\* def_instance itself).  Stated for callers that do not pass is_clone=True
\* themselves.
C6_DebugCreateIsFreshNonClone ==
    [][(global_debug /\ last'.op = "create" /\ ~AsksForClone(last'.arg.kargs))
        => /\ cache' = cache
           /\ ~gens'[last'.g].is_cloned
           /\ gens'[last'.g].def_instance = last'.g]_vars

\* C7: after clear_context the backend context and the cache of every class
\* (the base class, its subclasses and their subclasses) are empty.
C7_ClearEmptiesEveryCache ==
    last.op = "clear_context"
        => /\ context = {}
           /\ \A c \in Classes : cache[c] = EmptyMap

-----------------------------------------------------------------------------
(* Deferred construction of clones: C3, C4, C5 *)

DeferredCalls ==
    {"add_stmt", "remove_stmt", "wire", "add_child_generator",
     "remove_child_generator", "combinational", "sequential", "add_code"}

DeclaringCalls == {"port", "input", "output", "var", "parameter"}

IRState(gen) ==
    <<gen.ports, gen.vars, gen.params, gen.stmts, gen.children, gen.bchildren>>

AllAddStmt(queue) == \A i \in 1..Len(queue) : queue[i].fn = "add_stmt"

C5_InitializeCloneIdempotent ==
    [][/\ \A g \in 1..Len(gens) :
            gens'[g].is_cloned # gens[g].is_cloned
                => /\ gens[g].is_cloned
                   /\ last'.op = "initialize_clone"
                   /\ last'.g = g
       /\ (last'.op = "initialize_clone" /\ ~gens[last'.g].is_cloned)
            => /\ last'.arg = <<>>
               /\ gens' = gens
               /\ cache' = cache
               /\ context' = context]_vars

\* C5 witness: initialize_clone was called again on a former clone whose
\* first replay failed and left entries in the queue.
C5_Witness ==
    /\ last.op = "initialize_clone"
    /\ ~last.was_cloned
    /\ gens[last.g].def_instance # last.g
    /\ Len(gens[last.g].queue) > 0

-----------------------------------------------------------------------------
(* Child bookkeeping: C8, C9, C10 *)

\* C8: add_child_generator on a generator that is not cloned fails when the
\* instance name is already a key of the child map and leaves the map as it
\* was; otherwise it maps the name to the child, makes the generator the
\* child's parent, gives the child that instance name and tells the backend.
C8_AddChildRegistersOrRejects ==
    [][(last'.op = "add_child_generator" /\ ~gens[last'.g].is_cloned)
        => LET g == last'.g
               n == last'.arg.name
               c == last'.arg.child
           IN IF n \in DOMAIN gens[g].children
              THEN /\ ~last'.ok
                   /\ gens'[g].children = gens[g].children
              ELSE /\ last'.ok
                   /\ gens'[g].children = MapSet(gens[g].children, n, c)
                   /\ gens'[c].parent = g
                   /\ gens'[c].instance_name = n
                   /\ c \in gens'[g].bchildren]_vars

\* C8 witness: add_child_generator was rejected for a name that another
\* child, registered earlier, still holds.
C8_Witness ==
    /\ last.op = "add_child_generator"
    /\ ~last.was_cloned
    /\ ~last.ok
    /\ last.arg.had
    /\ last.arg.prev # last.arg.child
    /\ gens[last.g].children[last.arg.name] = last.arg.prev
    /\ gens[last.arg.prev].parent = last.g

\* C9: remove_child_generator on a generator that is not cloned fails and
\* leaves the child map unchanged when the given generator is not a registered
\* child, and any entry it removes is the given generator.
C9_RemoveOnlyTheGivenChild ==
    [][(last'.op = "remove_child_generator" /\ ~gens[last'.g].is_cloned)
        => LET g == last'.g
               c == last'.arg.child
               old == gens[g].children
               new == gens'[g].children
           IN /\ (\A n \in DOMAIN old : old[n] # c) => (~last'.ok /\ new = old)
              /\ \A n \in (DOMAIN old) \ (DOMAIN new) : old[n] = c]_vars

\* C10: setting instance_name on a generator that has a parent either re-keys
\* the parent's child map from the old name to the new one and updates the
\* instance name, or fails and leaves the parent's child map as it was.
C10_RenameIsAtomic ==
    [][(last'.op = "instance_name" /\ last'.arg.parent # NoGen)
        => LET g == last'.g
               p == last'.arg.parent
               old_name == gens[g].instance_name
           IN IF last'.ok
              THEN /\ old_name \in DOMAIN gens[p].children
                   /\ gens'[p].children =
                        MapSet(MapPop(gens[p].children, old_name), last'.arg.name, g)
                   /\ gens'[g].instance_name = last'.arg.name
              ELSE gens'[p].children = gens[p].children]_vars

-----------------------------------------------------------------------------
(* Register helpers on a generator that was constructed directly *)

\* the ports the callers declare: two clocks, an asynchronous reset and a
\* data input that serves as source and as enable
RegPorts ==
    { PortRec("clk", "In", "Clock"), PortRec("clk2", "In", "Clock"),
      PortRec("rst", "In", "AsyncReset"), PortRec("en", "In", "Data") }

RegNames == {"a", "b"}
InitValues == {"0"}

\* self.port(name, width, PortDirection.In, port_type)
DeclarePort ==
    \E g \in Subjects, p \in RegPorts :
        Invoke("port", g, port(gens, g, p.name, p.dir, p.ptype), p.name)

\* the names get_ports can list first; None when it lists nothing
Firsts(g, port_type) ==
    IF GetPorts(gens[g], port_type) = {} THEN {None} ELSE GetPorts(gens[g], port_type)

RegNext ==
    \E g \in Subjects, var_name \in RegNames, clk \in {None, "clk", "clk2"} :
      \E first \in Firsts(g, "Clock") :
        /\ Room(g)
        /\ Invoke("reg_next", g, reg_next(gens, g, var_name, "en", clk, first),
                  [var_name |-> var_name, source |-> "en", clk |-> clk,
                   reset |-> None, en |-> None, init_value |-> None,
                   first_clk |-> first, first_rst |-> None])

RegInit ==
    \E g \in Subjects, var_name \in RegNames, clk \in {None, "clk"},
       reset \in {None, "rst"}, init_value \in InitValues :
      \E first_clk \in Firsts(g, "Clock"), first_rst \in Firsts(g, "AsyncReset") :
        /\ Room(g)
        /\ Invoke("reg_init", g,
                  reg_init(gens, g, var_name, "en", clk, reset, init_value,
                           first_clk, first_rst),
                  [var_name |-> var_name, source |-> "en", clk |-> clk,
                   reset |-> reset, en |-> None, init_value |-> init_value,
                   first_clk |-> first_clk, first_rst |-> first_rst])

RegEnable ==
    \E g \in Subjects, var_name \in RegNames, clk \in {None, "clk"} :
      \E first \in Firsts(g, "Clock") :
        /\ Room(g)
        /\ Invoke("reg_enable", g, reg_enable(gens, g, var_name, "en", "en", clk, first),
                  [var_name |-> var_name, source |-> "en", clk |-> clk,
                   reset |-> None, en |-> "en", init_value |-> None,
                   first_clk |-> first, first_rst |-> None])

NextReg == Construct \/ DeclarePort \/ RegNext \/ RegInit \/ RegEnable

SpecReg == InitHier /\ [][NextReg]_vars

-----------------------------------------------------------------------------
(* Wiring: C11 *)

\* what the backend answers for a pair: whether it can be wired, and which
\* operand the assignment drives
WireCompatible(var_to, var_from) ==
    IF IsPort(var_to) /\ IsPort(var_from)
    THEN PortDirectionOf(var_to) # PortDirectionOf(var_from)
    ELSE BackendCorrectWireDirection(var_to, var_from).correct_assign

WireDriven(var_to, var_from) ==
    IF IsPort(var_to) /\ IsPort(var_from)
    THEN (IF PortDirectionOf(var_to) = "Out" THEN var_to ELSE var_from)
    ELSE (IF BackendCorrectWireDirection(var_to, var_from).correct_dir
          THEN var_to ELSE var_from)

-----------------------------------------------------------------------------
(* Code blocks and labels: C12, C16 *)

\* an entry that is an (edge kind, signal) pair whose signal is a port or
\* variable of the generator
EntryOfGenerator(gen, e) ==
    /\ e.t = "tuple"
    /\ Len(e.items) = 2
    /\ IsEdgeType(e.items[1])
    /\ IsVarObject(e.items[2])
    /\ HasVar(gen, e.items[2].s)

\* C12: sequential(*edges) on a generator that is not cloned returns a block
\* exactly when every entry is an (edge kind, signal) pair whose signal exists
\* in that generator, and fails otherwise.
C12_SequentialRequiresOwnSignals ==
    [][(last'.op = "sequential" /\ ~gens[last'.g].is_cloned)
        => (last'.ok <=>
              \A i \in 1..Len(last'.arg) :
                  EntryOfGenerator(gens[last'.g], last'.arg[i]))]_vars

\* C16: a label of a generator, once registered, stays mapped to the same
\* handle; mark_stmt with a registered label fails and changes nothing,
\* mark_stmt with a new label maps it to the handle passed; get_marked_stmt
\* returns the handle the label is mapped to and fails for a label that was
\* never registered.
C16_LabelRegisteredOnce ==
    [][/\ \A g \in 1..Len(gens) : \A l \in DOMAIN gens[g].labels :
            /\ l \in DOMAIN gens'[g].labels
            /\ gens'[g].labels[l] = gens[g].labels[l]
       /\ last'.op = "mark_stmt"
            => IF last'.arg.name \in DOMAIN gens[last'.g].labels
               THEN ~last'.ok /\ gens' = gens
               ELSE /\ last'.ok
                    /\ gens'[last'.g].labels =
                         MapSet(gens[last'.g].labels, last'.arg.name, last'.arg.stmt)
       /\ last'.op = "get_marked_stmt"
            => /\ gens' = gens
               /\ IF last'.arg.name \in DOMAIN gens[last'.g].labels
                  THEN last'.ok /\ last'.arg.ret = gens[last'.g].labels[last'.arg.name]
                  ELSE ~last'.ok]_vars

\* C16 witness: mark_stmt was refused for a label that is registered for
\* another block, and the label still names that block.
C16_Witness ==
    /\ last.op = "mark_stmt"
    /\ ~last.ok
    /\ last.arg.name \in DOMAIN gens[last.g].labels
    /\ gens[last.g].labels[last.arg.name] # last.arg.stmt

-----------------------------------------------------------------------------
(* Register helpers: C13, C14, C15 *)

RegHelpers == {"reg_next", "reg_init", "reg_enable"}

\* the map a helper keeps from its keys to what it built for them
HelperMap(gen, op) ==
    CASE op = "reg_next" -> gen.reg_next_stmt
      [] op = "reg_init" -> gen.reg_init_stmt
      [] OTHER -> gen.reg_en_stmt

\* the clock and the reset a call stands for
CallClock(arg) == IF arg.clk = None THEN arg.first_clk ELSE arg.clk
CallReset(arg) == IF arg.reset = None THEN arg.first_rst ELSE arg.reset

\* the key of a call: clock, (clock, reset) or (clock, enable)
CallKey(op, arg) ==
    CASE op = "reg_next" -> CallClock(arg)
      [] op = "reg_init" -> <<CallClock(arg), CallReset(arg)>>
      [] OTHER -> <<CallClock(arg), arg.en>>

SeqBlocks(gen) == {k \in 1..Len(gen.stmts) : gen.stmts[k].t = "seq"}

\* the assignments a helper has put into the block, or the true-path of the
\* branch, of one key
AssignCount(gen, op, uid) ==
    LET blk == gen.stmts[BlockIndex(gen, uid)]
    IN IF op = "reg_next" THEN Len(blk.body) ELSE Len(blk.body[1].then_body)

\* C13: a register helper called on a generator that is not cloned creates a
\* sequential block exactly when its key (clock; clock and reset; clock and
\* enable) is new to that helper, so each helper holds one block per distinct
\* key; a call with a known key creates no block, keeps the key's block and,
\* when it returns, has appended one assignment to that block or branch.
C13_OneBlockPerKey ==
    [][(last'.op \in RegHelpers /\ ~gens[last'.g].is_cloned)
        => LET g == last'.g
               op == last'.op
               old == HelperMap(gens[g], op)
               new == HelperMap(gens'[g], op)
               key == CallKey(op, last'.arg)
           IN /\ Cardinality(SeqBlocks(gens'[g])) - Cardinality(SeqBlocks(gens[g]))
                    = Cardinality(DOMAIN new) - Cardinality(DOMAIN old)
              /\ (DOMAIN new) \ (DOMAIN old) \subseteq {key}
              /\ \A k \in DOMAIN old : k \in DOMAIN new /\ new[k] = old[k]
              /\ \A k1, k2 \in DOMAIN new : new[k1] = new[k2] => k1 = k2
              /\ \A h \in RegHelpers \ {op} :
                    HelperMap(gens'[g], h) = HelperMap(gens[g], h)
              /\ key \in DOMAIN old
                    => /\ Len(gens'[g].stmts) = Len(gens[g].stmts)
                       /\ last'.ok => AssignCount(gens'[g], op, old[key])
                                        = AssignCount(gens[g], op, old[key]) + 1]_vars

\* C13 witness: a second reg_next with the same clock has returned; the
\* generator holds one sequential block, with two assignments.
C13_Witness ==
    /\ last.op = "reg_next"
    /\ last.ok
    /\ DOMAIN gens[last.g].reg_next_stmt = {"clk"}
    /\ Cardinality(SeqBlocks(gens[last.g])) = 1
    /\ Len(gens[last.g].stmts[1].body) = 2
    /\ gens[last.g].stmts[1].body[1] # gens[last.g].stmts[1].body[2]

\* the branch of a key before a call: the one that exists, or a new one
BranchBefore(gen, op, key, predicate) ==
    IF key \in DOMAIN HelperMap(gen, op)
    THEN gen.stmts[BlockIndex(gen, HelperMap(gen, op)[key])].body[1]
    ELSE IfStmt(predicate)

\* C14: a reg_init that returns on a generator that is not cloned has, for a
\* new (clock, reset) pair, added exactly one sequential block, sensitive to
\* the rising edges of clock and reset, whose only statement is a branch on
\* the reset, and for a known pair no block; it has appended new_var =
\* init_value to the branch's true-path and new_var = source to its
\* false-path.  A reg_enable that returns has appended new_var = source to the
\* true-path of the branch on the enable and left the false-path empty.
C14_RegInitFillsBothPaths ==
    [][(last'.op \in {"reg_init", "reg_enable"} /\ ~gens[last'.g].is_cloned /\ last'.ok)
        => LET g == last'.g
               op == last'.op
               a == last'.arg
               key == CallKey(op, a)
               fresh == key \notin DOMAIN HelperMap(gens[g], op)
               blk == gens'[g].stmts[BlockIndex(gens'[g], HelperMap(gens'[g], op)[key])]
               before == BranchBefore(gens[g], op, key, key[2])
           IN /\ Len(gens'[g].stmts) = Len(gens[g].stmts) + (IF fresh THEN 1 ELSE 0)
              /\ blk.t = "seq"
              /\ blk.sens = IF op = "reg_init"
                            THEN << <<"Posedge", key[1]>>, <<"Posedge", key[2]>> >>
                            ELSE << <<"Posedge", key[1]>> >>
              /\ Len(blk.body) = 1
              /\ blk.body[1].t = "if"
              /\ blk.body[1].a = key[2]
              /\ IF op = "reg_init"
                 THEN /\ blk.body[1].then_body =
                            Append(before.then_body, AssignStmt(a.var_name, a.init_value))
                      /\ blk.body[1].else_body =
                            Append(before.else_body, AssignStmt(a.var_name, a.source))
                 ELSE /\ blk.body[1].then_body =
                            Append(before.then_body, AssignStmt(a.var_name, a.source))
                      /\ blk.body[1].else_body = <<>>]_vars

\* C14 witness: a second reg_init with the same clock and reset has returned;
\* the one block's branch holds two assignments on either path.
C14_Witness ==
    /\ last.op = "reg_init"
    /\ last.ok
    /\ Cardinality(SeqBlocks(gens[last.g])) = 1
    /\ Len(gens[last.g].stmts[1].body[1].then_body) = 2
    /\ Len(gens[last.g].stmts[1].body[1].else_body) = 2

\* C15: a register helper called without a clock, or reg_init called without
\* a reset, fails unless the generator has exactly one port of that type.
C15_OmittedPortMustBeUnique ==
    [][(last'.op \in RegHelpers /\ ~gens[last'.g].is_cloned)
        => /\ (last'.arg.clk = None
                  /\ Cardinality(GetPorts(gens[last'.g], "Clock")) # 1)
                => ~last'.ok
           /\ (last'.op = "reg_init" /\ last'.arg.reset = None
                  /\ Cardinality(GetPorts(gens[last'.g], "AsyncReset")) # 1)
                => ~last'.ok]_vars

-----------------------------------------------------------------------------
(* Deferred creation of blocks: C17 *)

BlockCalls == {"combinational", "sequential", "add_code"}

BlockCount(gen) == Cardinality({k \in 1..Len(gen.stmts) : gen.stmts[k].uid > 0})

\* a recorded call that builds a block, with a sensitivity list (if any) of
\* (edge kind, signal) pairs only
WellFormedBlockCall(e) ==
    /\ e.fn \in BlockCalls
    /\ \A i \in 1..Len(e.sq) :
          /\ e.sq[i].t = "tuple"
          /\ Len(e.sq[i].items) = 2
          /\ IsEdgeType(e.sq[i].items[1])
          /\ IsVarObject(e.sq[i].items[2])

\* C17: combinational(), sequential(...) and add_code(...) on an uninitialized
\* clone return normally, append one entry to the deferred queue and leave
\* the blocks of the clone and of its definition instance as they were; an
\* initialize_clone whose queue holds only such calls returns and has built
\* one block for every queued call.
C17_BlocksBuiltOnlyAtReplay ==
    [][/\ (last'.op \in BlockCalls /\ gens[last'.g].is_cloned)
            => LET g == last'.g
                   d == gens[g].def_instance
               IN /\ last'.ok
                  /\ Len(gens'[g].queue) = Len(gens[g].queue) + 1
                  /\ gens'[g].stmts = gens[g].stmts
                  /\ gens'[d].stmts = gens[d].stmts
       /\ (last'.op = "initialize_clone" /\ gens[last'.g].is_cloned
              /\ \A i \in 1..Len(gens[last'.g].queue) :
                     WellFormedBlockCall(gens[last'.g].queue[i]))
            => /\ last'.ok
               /\ BlockCount(gens'[last'.g])
                     = BlockCount(gens[last'.g]) + Len(gens[last'.g].queue)]_vars

-----------------------------------------------------------------------------
(* The cache key: C18, C19 *)

\* every cache entry was stored by a create on the class that owns the cache
CachesPerClass ==
    \A c \in Classes : \A h \in DOMAIN cache[c] : gens[cache[c][h]].cls = c

\* C18: every entry of a class cache was stored by a create on that very
\* class, and the first create on a class with a given keyword mapping (global
\* debug off, is_clone not passed as True) is a miss that returns a non-clone.
C18_FirstCreatePerClassIsMiss ==
    /\ CachesPerClass
    /\ (last.op = "create" /\ ~last.arg.debug /\ last.arg.first = NoGen
            /\ ~AsksForClone(last.arg.kargs))
        => /\ ~last.arg.hit
           /\ ~gens[last.g].is_cloned
           /\ gens[last.g].def_instance = last.g

\* the keyword list with the values of debug and is_clone exchanged
SwapValues(kargs) ==
    [i \in 1..Len(kargs) |->
        IF kargs[i][1] = "debug"
        THEN <<"debug", KwGet(kargs, "is_clone", Bool(FALSE))>>
        ELSE IF kargs[i][1] = "is_clone"
             THEN <<"is_clone", KwGet(kargs, "debug", Bool(FALSE))>>
             ELSE kargs[i]]

\* C19: a keyword list and the list with the values of two of its keys
\* exchanged have the same cache key; hence, with global debug off, a create
\* on a class that has already seen the exchanged mapping returns a clone of
\* the definition instance the create with that mapping returned or cloned.
C19_SwappedValuesCollide ==
    /\ \A kargs \in KwargsSet :
          HasBothFlags(kargs) => HashKwargs(SwapValues(kargs)) = HashKwargs(kargs)
    /\ (last.op = "create" /\ ~last.arg.debug /\ HasBothFlags(last.arg.kargs))
        => LET other == <<last.arg.cls, Mapping(SwapValues(last.arg.kargs))>>
           IN other \in DOMAIN first_of
                => /\ gens[last.g].is_cloned
                   /\ gens[last.g].def_instance = gens[first_of[other]].def_instance

\* C19 witness: create returned a clone of an instance that was built, as a
\* non-clone, from a different mapping: the same keys with the values of debug
\* and is_clone exchanged.
C19_Witness ==
    /\ last.op = "create"
    /\ ~last.arg.debug
    /\ HasBothFlags(last.arg.kargs)
    /\ Mapping(SwapValues(last.arg.kargs)) # Mapping(last.arg.kargs)
    /\ <<last.arg.cls, Mapping(SwapValues(last.arg.kargs))>> \in DOMAIN first_of
    /\ LET d == first_of[<<last.arg.cls, Mapping(SwapValues(last.arg.kargs))>>]
       IN /\ d # last.g
          /\ ~gens[d].is_cloned
          /\ gens[d].def_instance = d
          /\ gens[last.g].def_instance = d
          /\ gens[last.g].is_cloned

-----------------------------------------------------------------------------
(* The queue after initialization: C20 *)

\* C20: in every reachable state a generator that is not cloned, because it
\* never was a clone or because initialize_clone has been invoked on it
\* (whether or not a replayed call failed), has an empty deferred queue.
C20_QueueEmptyWhenNotCloned ==
    \A g \in GenIds : ~gens[g].is_cloned => gens[g].queue = <<>>

-----------------------------------------------------------------------------
(* Deferred calls with all their arguments, on the one clone that create     *)
(* returns for a second request.                                             *)

\* the clone the calls are made on, as long as it is not initialized
DeferSubjects == {g \in Clones \cap {2} : gens[g].is_cloned}

\* the arguments of a call as the caller wrote them
CallArgs(s1, s2, c, n, sq, label) ==
    [s1 |-> s1, s2 |-> s2, c |-> c, n |-> n, sq |-> sq, label |-> label]

\* the method op of generator g called with the arguments a
DirectCall(G, g, op, a) ==
    CASE op = "add_stmt" -> add_stmt(G, g, a.s1)
      [] op = "remove_stmt" -> remove_stmt(G, g, a.s1)
      [] op = "wire" -> wire(G, g, a.s1, a.s2, a.n, a.c)
      [] op = "add_child_generator" -> add_child_generator(G, g, a.s1, a.n, a.c)
      [] op = "remove_child_generator" -> remove_child_generator(G, g, a.n)
      [] op = "combinational" -> combinational(G, g)
      [] op = "sequential" -> sequential(G, g, a.sq)
      [] OTHER -> add_code(G, g, a.s1, a.c, a.label)

Comments == {"", "c"}

\* self.var("v") on the clone: the signal the sensitivity lists name
DeclareOnClone ==
    \E g \in DeferSubjects : Invoke("var", g, var(gens, g, "v"), "v")

CallOn(op, argset) ==
    \E g \in DeferSubjects, a \in argset :
        Room(g) /\ Invoke(op, g, DirectCall(gens, g, op, a), a)

AddStmtCall ==
    CallOn("add_stmt", {CallArgs(st, "", "", 0, <<>>, "") : st \in StmtHandles})

RemoveStmtCall ==
    CallOn("remove_stmt", {CallArgs("s1", "", "", 0, <<>>, "")})

WireCall ==
    CallOn("wire", {CallArgs(w[1], w[2], c, n, <<>>, "") :
                        w \in WirePairs, c \in Comments, n \in {0, 1}})

AddChildCall ==
    CallOn("add_child_generator",
           {CallArgs("x", "", c, 1, <<>>, "") : c \in Comments})

RemoveChildCall ==
    CallOn("remove_child_generator", {CallArgs("", "", "", 1, <<>>, "")})

CombinationalCall ==
    CallOn("combinational", {CallArgs("", "", "", 0, <<>>, "")})

SequentialCall ==
    CallOn("sequential", {CallArgs("", "", "", 0, sl, "") : sl \in SensLists})

AddCodeCall ==
    CallOn("add_code", {CallArgs(fn, "", c, 0, <<>>, l) :
                            fn \in Functions, c \in Comments, l \in {"", "L"}})

NextDefer ==
    \/ CreateClone \/ DeclareOnClone \/ AddStmtCall \/ RemoveStmtCall \/ WireCall
    \/ AddChildCall \/ RemoveChildCall \/ CombinationalCall \/ SequentialCall
    \/ AddCodeCall \/ InitializeClone

SpecDefer == InitHier /\ [][NextDefer]_vars

-----------------------------------------------------------------------------
(* Deferral against direct application: C21 *)

\* what the calls build in a generator: statements and blocks, children,
\* child comments and labels
Built(gen) ==
    [stmts |-> gen.stmts, children |-> gen.children, bchildren |-> gen.bchildren,
     comments |-> gen.comments, labels |-> gen.labels, bnamed |-> gen.bnamed]

\* C21: deferring a call and replaying it is the same as making it directly.
\* For every deferrable call made on an uninitialized clone: initialize_clone
\* of the queue that now ends with the call returns exactly when replaying the
\* queue without it and then making the call directly, with the same
\* arguments, returns, and both leave the same statements, blocks, children,
\* child comments and labels.
C21_ReplayEqualsDirect ==
    [][(last'.op \in DeferredCalls /\ gens[last'.g].is_cloned)
        => LET g == last'.g
               before == initialize_clone(gens, g)
               direct == DirectCall(before.G, g, last'.op, last'.arg)
               replayed == initialize_clone(gens', g)
           IN before.ok
                => /\ replayed.ok <=> direct.ok
                   /\ Built(replayed.G[g]) = Built(direct.G[g])]_vars

-----------------------------------------------------------------------------
(* Parent and child links: C22 *)

\* parent p holds generator g under g's current instance name
HoldsChild(p, g) ==
    /\ gens[g].instance_name \in DOMAIN gens[p].children
    /\ gens[p].children[gens[g].instance_name] = g

\* C22: in every state reached by add_child_generator, remove_child_generator,
\* replace and instance renames on generators that are not cloned, a
\* generator's parent is p exactly when p's child map holds that generator
\* under the generator's current instance name, and no two children of one
\* parent have the same instance name.
C22_ParentChildLinksConsistent ==
    /\ \A g \in GenIds : \A p \in GenIds :
          (gens[g].parent = p) <=> HoldsChild(p, g)
    /\ \A p \in GenIds : \A n1, n2 \in DOMAIN gens[p].children :
          n1 # n2 =>
              /\ gens[p].children[n1] # gens[p].children[n2]
              /\ gens[gens[p].children[n1]].instance_name
                    # gens[gens[p].children[n2]].instance_name

-----------------------------------------------------------------------------
(* Definition instances and their clones: create, clone, initialize_clone,   *)
(* clear_context and calls on the generators create and clone returned.      *)

CreateDef ==
    \E cls \in {"Generator", "A"}, kargs \in {KwName("a"), KwName("")} :
        create(cls, kargs)

CloneDef ==
    \E cls \in {"Generator", "A"}, kargs \in {KwName("a"), KwName("")} :
        clone(cls, kargs)

\* the generator the calls are made on: the second one built, when it is the
\* clone of a definition instance or is still flagged as cloned
Mutables ==
    {g \in GenIds \cap {2} : gens[g].def_instance # g \/ gens[g].is_cloned}

MutateAddStmt ==
    \E g \in Mutables :
        Room(g) /\ Invoke("add_stmt", g, add_stmt(gens, g, "s1"), "s1")

MutateAddCode ==
    \E g \in Mutables :
        Room(g) /\ Invoke("add_code", g, add_code(gens, g, "f_comb", "", "L"), "f_comb")

\* the first generator built is the one given as a child
MutateAddChild ==
    \E g \in Mutables, child \in GenIds \cap {1} :
        /\ Room(g)
        /\ Invoke("add_child_generator", g,
                  add_child_generator(gens, g, "x", child, ""),
                  [name |-> "x", child |-> child, comment |-> "",
                   had |-> "x" \in DOMAIN gens[g].children,
                   prev |-> IF "x" \in DOMAIN gens[g].children
                            THEN gens[g].children["x"] ELSE NoGen])

NextDef ==
    \/ CreateDef \/ CloneDef \/ ClearContext \/ InitializeClone
    \/ MutateAddStmt \/ MutateAddCode \/ MutateAddChild

SpecDef == InitHier /\ [][NextDef]_vars

-----------------------------------------------------------------------------
(* The cache holds definition instances only: C23 *)

\* a definition instance: its own def_instance
IsDefinition(G, g) == G[g].def_instance = g

\* every cache entry is a definition instance that is not flagged as cloned
CacheHoldsDefinitions(C, G) ==
    \A c \in Classes : \A h \in DOMAIN C[c] :
        IsDefinition(G, C[c][h]) /\ ~G[C[c][h]].is_cloned

\* the def_instance of every generator is a definition instance
DefInstanceIsDefinition(G) ==
    \A g \in 1..Len(G) : IsDefinition(G, G[g].def_instance)

MutatingCalls == DeferredCalls \cup {"initialize_clone"}

\* C23: after any sequence of create, clone, initialize_clone and
\* clear_context, every class cache holds only instances built on a cache miss,
\* none of them a clone; the def_instance of every generator is itself or such
\* an instance, so the def_instance of a def_instance is itself; and
\* initializing or mutating a clone leaves every cache, and the children,
\* statements and labels of the clone's def_instance, as they were.
C23_CacheHoldsOnlyDefinitions ==
    [][/\ CacheHoldsDefinitions(cache', gens')
       /\ DefInstanceIsDefinition(gens')
       /\ (last'.op \in MutatingCalls /\ ~IsDefinition(gens, last'.g))
            => LET d == gens[last'.g].def_instance
               IN /\ cache' = cache
                  /\ gens'[d].children = gens[d].children
                  /\ gens'[d].stmts = gens[d].stmts
                  /\ gens'[d].labels = gens[d].labels]_vars

-----------------------------------------------------------------------------
(* Register helpers on the clone that create returns for a second request,   *)
(* before and after its initialize_clone.                                    *)

RegClones == Clones \cap {2}

\* self.port(name, width, PortDirection.In, port_type) on one of targets
DeclarePortOn(targets, ports) ==
    \E g \in targets, p \in ports :
        Invoke("port", g, port(gens, g, p.name, p.dir, p.ptype), p.name)

\* the helpers called without a clock and without a reset, on one of targets,
\* for a new variable of names from a source of sources
RegNextOn(targets, names, sources) ==
    \E g \in targets, var_name \in names, source \in sources :
      \E first \in Firsts(g, "Clock") :
        /\ Room(g)
        /\ Invoke("reg_next", g, reg_next(gens, g, var_name, source, None, first),
                  [var_name |-> var_name, source |-> source, clk |-> None,
                   reset |-> None, en |-> None, init_value |-> None,
                   first_clk |-> first, first_rst |-> None])

RegInitOn(targets, names, sources) ==
    \E g \in targets, var_name \in names, source \in sources,
       init_value \in InitValues :
      \E first_clk \in Firsts(g, "Clock"), first_rst \in Firsts(g, "AsyncReset") :
        /\ Room(g)
        /\ Invoke("reg_init", g,
                  reg_init(gens, g, var_name, source, None, None, init_value,
                           first_clk, first_rst),
                  [var_name |-> var_name, source |-> source, clk |-> None,
                   reset |-> None, en |-> None, init_value |-> init_value,
                   first_clk |-> first_clk, first_rst |-> first_rst])

RegEnableOn(targets, names, sources) ==
    \E g \in targets, var_name \in names, source \in sources :
      \E first \in Firsts(g, "Clock") :
        /\ Room(g)
        /\ Invoke("reg_enable", g,
                  reg_enable(gens, g, var_name, source, "en", None, first),
                  [var_name |-> var_name, source |-> source, clk |-> None,
                   reset |-> None, en |-> "en", init_value |-> None,
                   first_clk |-> first, first_rst |-> None])

NextRegClone ==
    \/ CreateClone \/ InitializeClone
    \/ DeclarePortOn(RegClones, RegPorts)
    \/ RegNextOn(RegClones, RegNames, {"en"})
    \/ RegInitOn(RegClones, RegNames, {"en"})
    \/ RegEnableOn(RegClones, RegNames, {"en"})

SpecRegClone == InitHier /\ [][NextRegClone]_vars

-----------------------------------------------------------------------------
(* What the helper caches refer to: C24 *)

\* the entry of helper op for a key is a sequential block of the generator
\* (reg_next), or the branch that opens such a block (reg_init, reg_enable)
RefersToBlock(gen, op, key) ==
    LET uid == HelperMap(gen, op)[key]
    IN /\ uid # NoGen
       /\ \E k \in SeqBlocks(gen) :
             /\ gen.stmts[k].uid = uid
             /\ op # "reg_next"
                  => /\ Len(gen.stmts[k].body) >= 1
                     /\ gen.stmts[k].body[1].t = "if"

CachesReferToBlocks(G) ==
    \A g \in 1..Len(G) : \A op \in RegHelpers :
        \A key \in DOMAIN HelperMap(G[g], op) : RefersToBlock(G[g], op, key)

\* a call whose clock, reset, source and enable exist and whose variable is new
WellFormedRegCall(gen, op, arg) ==
    /\ HasPort(gen, CallClock(arg))
    /\ op = "reg_init" => HasPort(gen, CallReset(arg))
    /\ op = "reg_enable" => HasPort(gen, arg.en)
    /\ HasPort(gen, arg.source)
    /\ arg.var_name \notin Declared(gen)

\* C24: every entry of the helper caches (per clock for reg_next, per clock
\* and reset for reg_init, per clock and enable for reg_enable) refers to a
\* sequential block or branch that exists in the generator; and once a helper
\* was called on an uninitialized clone and initialize_clone has run, a
\* well-formed call of that helper with the same key returns and has appended
\* an assignment to an existing block.
C24_HelperCachesReferToBlocks ==
    [][/\ CachesReferToBlocks(gens')
       /\ (last'.op \in RegHelpers /\ ~gens[last'.g].is_cloned
              /\ gens[last'.g].def_instance # last'.g
              /\ WellFormedRegCall(gens[last'.g], last'.op, last'.arg))
            => LET g == last'.g
                   key == CallKey(last'.op, last'.arg)
               IN /\ last'.ok
                  /\ key \in DOMAIN HelperMap(gens'[g], last'.op)
                  /\ RefersToBlock(gens'[g], last'.op, key)]_vars

-----------------------------------------------------------------------------
(* Calls that fail, on a generator that was constructed directly: a second   *)
(* child under a taken name, a sensitivity entry that is no pair of edge and *)
(* signal, a register from a source that does not exist, a label twice.      *)

\* the source "en" is a port the generator may have declared, "q" a name it
\* never declares
NextFail ==
    \/ Construct
    \/ DeclarePortOn(Subjects, {p \in RegPorts : p.name # "clk2"})
    \/ AddChildOn(Parents, {"x"}, {""})
    \/ SequentialNow
    \/ RegNextOn(Subjects, {"a"}, {"en", "q"})
    \/ RegInitOn(Subjects, {"a"}, {"en", "q"})
    \/ RegEnableOn(Subjects, {"a"}, {"en", "q"})
    \/ MarkStmt

SpecFail == InitHier /\ [][NextFail]_vars

-----------------------------------------------------------------------------
(* Failing calls leave the state as it was: C25 *)

\* the blocks, variables and helper-cache entries of a generator
RegState(gen) ==
    <<gen.stmts, gen.vars, gen.reg_next_stmt, gen.reg_init_stmt, gen.reg_en_stmt>>

\* C25: a failing call leaves the state as it was.  An add_child_generator
\* that fails on a taken name leaves the rejected child's instance name and
\* parent unchanged; a sequential that fails on an invalid sensitivity entry
\* has added no block; a reg_next, reg_init or reg_enable that fails for a
\* source that does not exist has added no block, variable or helper-cache
\* entry; a mark_stmt that fails on a registered label leaves the label
\* mapping unchanged.
C25_FailedCallChangesNothing ==
    [][(~last'.ok /\ ~gens[last'.g].is_cloned)
        => LET g == last'.g
           IN /\ last'.op = "add_child_generator"
                    => /\ gens'[last'.arg.child].instance_name
                             = gens[last'.arg.child].instance_name
                       /\ gens'[last'.arg.child].parent = gens[last'.arg.child].parent
              /\ last'.op = "sequential" => gens'[g].stmts = gens[g].stmts
              /\ (last'.op \in RegHelpers /\ ~HasVar(gens[g], last'.arg.source))
                    => RegState(gens'[g]) = RegState(gens[g])
              /\ last'.op = "mark_stmt" => gens'[g].labels = gens[g].labels]_vars

=============================================================================
